---- MODULE Spec2Model ----
(***************************************************************************)
(* heyps: resolve an installed Adobe application by abbreviation and       *)
(* target version, then dispatch a script file to it (src/main.rs).        *)
(*                                                                         *)
(* Text is modelled by TLA+ strings, read as sequences of one-character    *)
(* strings (Len, Head, Tail, SubSeq and \o apply to them).  The inputs are *)
(* ASCII, so a string's byte length is its length.  format! is string      *)
(* concatenation of the literal text and the rendered arguments.           *)
(***************************************************************************)
EXTENDS Integers, Sequences, FiniteSets, TLC

VARIABLES
    pc,           \* the statement of main (or of the function run on its own) reached
    argv,         \* the command line: [app, target, execute, verbose]
    fs,           \* what the filesystem says of the script path: [exists, is_file]
    installed,    \* host state: the paths the metadata index holds for the bundle id
    script_type,  \* main's local script_type
    app_abbr,     \* main's local app_abbr
    target,       \* the parsed TargetVersion (clap's value for --target)
    candidates,   \* what mdfind_apps returned to App::new
    app,          \* main's local app
    spawned,      \* the external processes spawned so far, in order
    exit,         \* run_cmd's captured Output of the dispatched command
    diag,         \* the lines written to the diagnostic stream by run_cmd
    result,       \* what main returned
    str_in,       \* the argument of a string function run on its own
    str_out       \* its return value

vars == <<pc, argv, fs, installed, script_type, app_abbr, target, candidates,
          app, spawned, exit, diag, result, str_in, str_out>>

---------------------------------------------------------------------------
(* Bounds of the model. *)

\* longest script path given to escape_applescript_string on its own
MaxPathLen == 5
\* longest target string given to parse_target on its own
MaxTargetLen == 4
\* most bundles the metadata index holds for one bundle id
MaxInstalled == 3

---------------------------------------------------------------------------
(* Strings. *)

None == [tag |-> "None"]
Some(v) == [tag |-> "Some", val |-> v]
Ok(v) == [tag |-> "Ok", val |-> v]
Err(m) == [tag |-> "Err", msg |-> m]

\* the printable ASCII characters from byte 32 to 95, and from 97 to 126
AsciiLo == " !\"#$%&'()*+,-./0123456789:;<=>?@ABCDEFGHIJKLMNOPQRSTUVWXYZ[\\]^_"
AsciiHi == "abcdefghijklmnopqrstuvwxyz{|}~"

CharAt(s, i) == SubSeq(s, i, i)

\* the byte of an ASCII character
Byte == [c \in {CharAt(AsciiLo, i) : i \in 1..Len(AsciiLo)}
               \cup {CharAt(AsciiHi, i) : i \in 1..Len(AsciiHi)} |->
            IF \E i \in 1..Len(AsciiLo) : CharAt(AsciiLo, i) = c
            THEN 31 + CHOOSE i \in 1..Len(AsciiLo) : CharAt(AsciiLo, i) = c
            ELSE 96 + CHOOSE i \in 1..Len(AsciiHi) : CharAt(AsciiHi, i) = c]

\* all strings over the characters cs of length at most n
RECURSIVE Strings(_, _)
Strings(cs, n) ==
    IF n = 0 THEN {""}
    ELSE LET shorter == Strings(cs, n - 1)
         IN shorter \cup {c \o s : c \in cs, s \in {t \in shorter : Len(t) = n - 1}}

\* str::contains
contains(s, t) ==
    \E i \in 0..(Len(s) - Len(t)) : SubSeq(s, i + 1, i + Len(t)) = t

\* str::starts_with
starts_with(s, t) == Len(s) >= Len(t) /\ SubSeq(s, 1, Len(t)) = t

\* str::replace with a one-character pattern
RECURSIVE replace(_, _, _)
replace(s, c, r) ==
    IF s = "" THEN ""
    ELSE (IF Head(s) = c THEN r ELSE Head(s)) \o replace(Tail(s), c, r)

\* str::to_lowercase on ASCII
RECURSIVE to_lowercase(_)
to_lowercase(s) ==
    IF s = "" THEN ""
    ELSE LET b == Byte[Head(s)]
         IN (IF b >= 65 /\ b <= 90 THEN CharAt(AsciiHi, b - 64) ELSE Head(s))
            \o to_lowercase(Tail(s))

\* Ord for str: bytewise lexicographic; -1, 0, 1
RECURSIVE cmp_str(_, _)
cmp_str(a, b) ==
    IF a = "" THEN (IF b = "" THEN 0 ELSE -1)
    ELSE IF b = "" THEN 1
    ELSE IF Byte[Head(a)] < Byte[Head(b)] THEN -1
    ELSE IF Byte[Head(a)] > Byte[Head(b)] THEN 1
    ELSE cmp_str(Tail(a), Tail(b))

IsDigit(c) == Byte[c] >= 48 /\ Byte[c] <= 57

\* the value of a non-empty string of decimal digits
RECURSIVE DigitsValue(_)
DigitsValue(s) ==
    IF s = "" THEN 0
    ELSE 10 * DigitsValue(SubSeq(s, 1, Len(s) - 1)) + (Byte[CharAt(s, Len(s))] - 48)

\* str::parse::<u16>: an optional leading '+', then one or more digits, at most 65535
parse_u16(s) ==
    LET digits == IF Len(s) > 1 /\ Head(s) = "+" THEN Tail(s) ELSE s
    IN IF s = "" \/ s = "+" \/ s = "-" THEN None
       ELSE IF \E i \in 1..Len(digits) : ~IsDigit(CharAt(digits, i)) THEN None
       ELSE IF DigitsValue(digits) > 65535 THEN None
       ELSE Some(DigitsValue(digits))

\* ToString for an integer: decimal, a leading '-' when negative
RECURSIVE to_string(_)
to_string(n) ==
    IF n < 0 THEN "-" \o to_string(0 - n)
    ELSE IF n < 10 THEN CharAt("0123456789", n + 1)
    ELSE to_string(n \div 10) \o CharAt("0123456789", (n % 10) + 1)

---------------------------------------------------------------------------
(* TargetVersion and parse_target. *)

Latest == [kind |-> "Latest"]
Beta == [kind |-> "Beta"]
Year(y) == [kind |-> "Year", year |-> y]

parse_target(s) ==
    IF s = "latest" THEN Ok(Latest)
    ELSE IF s = "beta" THEN Ok(Beta)
    ELSE IF Len(s) = 4 /\ starts_with(s, "20")
         THEN LET n == parse_u16(s)
              IN IF n.tag = "Some" THEN Ok(Year(n.val))
                 ELSE Err("Invalid year: " \o s)
    ELSE Err("Invalid target: " \o s \o ". Use: latest, beta, or 20XX")

---------------------------------------------------------------------------
(* escape_applescript_string. *)

\* the two replacements in the other order
escape_quotes_first(s) == replace(replace(s, "\"", "\\\""), "\\", "\\\\")

escape_applescript_string(s) == replace(replace(s, "\\", "\\\\"), "\"", "\\\"")

---------------------------------------------------------------------------
(* std::path: components, ordering, file_name, extension, file_stem. *)

\* the segments of s between '/' characters, empty ones included
RECURSIVE split_slash(_, _)
split_slash(s, cur) ==
    IF s = "" THEN <<cur>>
    ELSE IF Head(s) = "/" THEN <<cur>> \o split_slash(Tail(s), "")
    ELSE split_slash(Tail(s), cur \o Head(s))

Component(k, n) == [kind |-> k, name |-> n]

\* Path::components: a leading '/' is RootDir, repeated separators and
\* non-leading "." segments vanish, ".." is ParentDir
components(p) ==
    LET segs == split_slash(p, "")
        root == starts_with(p, "/")
        lead == IF root THEN <<Component("RootDir", "")>>
                ELSE IF Len(segs) > 0 /\ segs[1] = "." THEN <<Component("CurDir", "")>>
                ELSE <<>>
        rest == SelectSeq(segs, LAMBDA x : x # "" /\ x # ".")
    IN lead \o [i \in 1..Len(rest) |->
                   IF rest[i] = ".." THEN Component("ParentDir", "")
                   ELSE Component("Normal", rest[i])]

\* the derived order of the Component enum's variants
KindRank(k) ==
    CASE k = "RootDir" -> 1 [] k = "CurDir" -> 2 [] k = "ParentDir" -> 3 [] k = "Normal" -> 4

cmp_component(a, b) ==
    IF KindRank(a.kind) < KindRank(b.kind) THEN -1
    ELSE IF KindRank(a.kind) > KindRank(b.kind) THEN 1
    ELSE cmp_str(a.name, b.name)

RECURSIVE cmp_components(_, _)
cmp_components(a, b) ==
    IF a = <<>> THEN (IF b = <<>> THEN 0 ELSE -1)
    ELSE IF b = <<>> THEN 1
    ELSE LET c == cmp_component(Head(a), Head(b))
         IN IF c # 0 THEN c ELSE cmp_components(Tail(a), Tail(b))

\* Ord for PathBuf: the components compared in order
cmp_path(p, q) == cmp_components(components(p), components(q))

\* Path::file_name: the last component when it is a normal one
file_name(p) ==
    LET cs == components(p)
    IN IF cs # <<>> /\ cs[Len(cs)].kind = "Normal" THEN Some(cs[Len(cs)].name) ELSE None

\* the position of the last '.' of a file name, 0 when there is none
LastDot(n) ==
    IF \E i \in 1..Len(n) : CharAt(n, i) = "."
    THEN CHOOSE i \in 1..Len(n) :
            CharAt(n, i) = "." /\ \A j \in (i + 1)..Len(n) : CharAt(n, j) # "."
    ELSE 0

\* Path::extension: after the last '.', unless the name has none or only a leading one
extension(p) ==
    LET f == file_name(p)
    IN IF f.tag = "None" THEN None
       ELSE IF LastDot(f.val) <= 1 THEN None
       ELSE Some(SubSeq(f.val, LastDot(f.val) + 1, Len(f.val)))

\* Path::file_stem: before the last '.', the whole name when extension is None
file_stem(p) ==
    LET f == file_name(p)
    IN IF f.tag = "None" THEN None
       ELSE IF LastDot(f.val) <= 1 THEN Some(f.val)
       ELSE Some(SubSeq(f.val, 1, LastDot(f.val) - 1))

\* one step of a stable sort: x goes after every element not greater than it
RECURSIVE insert_sorted(_, _)
insert_sorted(sorted, x) ==
    IF sorted = <<>> THEN <<x>>
    ELSE IF cmp_path(x, Head(sorted)) < 0 THEN <<x>> \o sorted
    ELSE <<Head(sorted)>> \o insert_sorted(Tail(sorted), x)

\* slice::sort on PathBuf: stable, ascending
RECURSIVE sort(_)
sort(paths) ==
    IF paths = <<>> THEN <<>>
    ELSE insert_sorted(sort(SubSeq(paths, 1, Len(paths) - 1)), paths[Len(paths)])

\* Iterator::last
last(xs) == IF xs = <<>> THEN None ELSE Some(xs[Len(xs)])

---------------------------------------------------------------------------
(* ScriptType, AppAbbr. *)

\* an unknown extension taken for a plain script
from_path_default_js(file_path) ==
    LET e == extension(file_path)
    IN IF e.tag = "None" THEN Err("The script file does not have an extension")
       ELSE LET ext == to_lowercase(e.val)
            IN IF ext = "psjs" THEN Ok("Psjs")
               ELSE IF ext = "jsx" THEN Ok("Jsx")
               ELSE Ok("Js")

from_path(file_path) ==
    LET e == extension(file_path)
    IN IF e.tag = "None" THEN Err("The script file does not have an extension")
       ELSE LET ext == to_lowercase(e.val)
            IN IF ext = "psjs" THEN Ok("Psjs")
               ELSE IF ext = "jsx" THEN Ok("Jsx")
               ELSE IF ext = "js" THEN Ok("Js")
               ELSE Err("Unsupported file type (supported: .psjs, .jsx, .js)")

\* AppAbbr::from_str
from_str(s) ==
    IF s = "ps" THEN Ok("Ps")
    ELSE IF s = "ai" THEN Ok("Ai")
    ELSE IF s = "ae" THEN Ok("Ae")
    ELSE Err("Unsupported application. Use: ps|ai|ae")

base_display_name(abbr) ==
    CASE abbr = "Ps" -> "Adobe Photoshop"
      [] abbr = "Ai" -> "Adobe Illustrator"
      [] abbr = "Ae" -> "Adobe After Effects"

bundle_id(abbr) ==
    CASE abbr = "Ps" -> "com.adobe.Photoshop"
      [] abbr = "Ai" -> "com.adobe.Illustrator"
      [] abbr = "Ae" -> "com.adobe.AfterEffects"

---------------------------------------------------------------------------
(* The resolver: mdfind_apps, choose_app_path, App::new. *)

\* the closure is_beta of choose_app_path
is_beta(p) ==
    LET f == file_name(p)
    IN IF f.tag = "Some" THEN contains(f.val, "(Beta)") ELSE FALSE

\* the closure of the Year arm: the file name contains the year's decimal text
has_year(p, y) ==
    LET f == file_name(p)
    IN IF f.tag = "Some" THEN contains(f.val, y) ELSE FALSE

\* without the sort: the candidates in the order the query returned them
choose_app_path_unsorted(paths, t) ==
    IF t.kind = "Latest"
    THEN LET latest_non_beta == last(SelectSeq(paths, LAMBDA p : ~is_beta(p)))
         IN IF latest_non_beta.tag = "Some" THEN latest_non_beta ELSE last(paths)
    ELSE IF t.kind = "Beta"
    THEN last(SelectSeq(paths, is_beta))
    ELSE LET y == to_string(t.year)
         IN last(SelectSeq(paths, LAMBDA p : has_year(p, y)))

\* latest without the preference for non-beta candidates
choose_app_path_any_latest(paths, t) ==
    LET sorted == sort(paths)
    IN IF t.kind = "Latest" THEN last(sorted)
       ELSE IF t.kind = "Beta" THEN last(SelectSeq(sorted, is_beta))
       ELSE LET y == to_string(t.year)
            IN last(SelectSeq(sorted, LAMBDA p : has_year(p, y)))

choose_app_path(paths, t) ==
    LET sorted == sort(paths)
    IN IF t.kind = "Latest"
       THEN LET latest_non_beta == last(SelectSeq(sorted, LAMBDA p : ~is_beta(p)))
            IN IF latest_non_beta.tag = "Some" THEN latest_non_beta ELSE last(sorted)
       ELSE IF t.kind = "Beta"
       THEN last(SelectSeq(sorted, is_beta))
       ELSE LET y == to_string(t.year)
            IN last(SelectSeq(sorted, LAMBDA p : has_year(p, y)))

\* the text of the io::Error of a Command::output that could not start the program
IoErrorText == "No such file or directory (os error 2)"

\* what the mdfind process did: it could not be started, or it ran to an exit
\* status with its captured streams (stdout as lines)
MdfindIoError == [ran |-> FALSE]
MdfindOutput(ok, lines, err) == [ran |-> TRUE, success |-> ok, stdout |-> lines, stderr |-> err]

\* mdfind_apps after Command::output returned o
mdfind_apps(o) ==
    IF ~o.ran THEN Err(IoErrorText)
    ELSE IF ~o.success THEN Err("mdfind failed: " \o o.stderr)
    ELSE Ok(SelectSeq(o.stdout,
                LAMBDA p : LET e == extension(p) IN e.tag = "Some" /\ e.val = "app"))

\* App::new after mdfind_apps returned found
App_new(abbr, t, found) ==
    IF found.tag = "Err" THEN found
    ELSE IF found.val = <<>>
    THEN Err(base_display_name(abbr) \o " not found (bundle id: " \o bundle_id(abbr) \o ")")
    ELSE LET chosen == choose_app_path(found.val, t)
         IN IF chosen.tag = "None" THEN Err("Requested target version not found")
            ELSE LET name == file_stem(chosen.val)
                 IN IF name.tag = "None" THEN Err("Failed to determine app name")
                    ELSE Ok([abbr |-> abbr, bundle_id |-> bundle_id(abbr),
                             name |-> name.val, path |-> chosen.val, target |-> t])

---------------------------------------------------------------------------
(* The dispatcher: Script::execute and what it calls. *)

\* a std::process::Command: the program and its arguments
Command(prog, cmd_args) == [prog |-> prog, args |-> cmd_args]
Run(cmd) == [tag |-> "Run", cmd |-> cmd]

\* execute_with_osascript up to self.run_cmd(cmd): an error, or the command to run
execute_with_osascript(a, file_path, kind) ==
    LET escaped == escape_applescript_string(file_path)
    IN IF a.abbr \in {"Ps", "Ai"}
       THEN Run(Command("osascript",
                <<"-e", "tell application \"" \o a.name
                        \o "\" to do javascript of (POSIX file \"" \o escaped \o "\")">>))
       ELSE IF kind = "Js"
       THEN Err("After Effects does not support plain .js; use .jsx")
       ELSE Run(Command("osascript",
                <<"-e", "tell application \"" \o a.name
                        \o "\" to DoScriptFile (POSIX file \"" \o escaped \o "\")">>))

\* execute_with_open up to self.run_cmd(cmd)
execute_with_open(a, file_path) == Run(Command("open", <<"-a", a.path, file_path>>))

\* without the check that .psjs goes to Photoshop only
execute_unchecked(a, file_path, kind) ==
    IF kind = "Psjs" THEN execute_with_open(a, file_path)
    ELSE execute_with_osascript(a, file_path, kind)

\* Script::execute up to run_cmd
execute(a, file_path, kind) ==
    IF kind = "Psjs"
    THEN IF a.abbr # "Ps" THEN Err(".psjs is only supported by Adobe Photoshop")
         ELSE execute_with_open(a, file_path)
    ELSE execute_with_osascript(a, file_path, kind)

\* what the dispatched process did: it could not be started, or it ran to an
\* exit status (code None when a signal ended it) with its captured streams
CmdIoError == [ran |-> FALSE]
CmdOutput(code, out, err) == [ran |-> TRUE, code |-> code, stdout |-> out, stderr |-> err]

\* ExitStatus::success
success(o) == o.code = Some(0)

IsSpace(c) == c \in {" ", "\n", "\t", "\r"}

\* str::trim().is_empty()
RECURSIVE trim_is_empty(_)
trim_is_empty(s) == s = "" \/ (IsSpace(Head(s)) /\ trim_is_empty(Tail(s)))

\* the lines run_cmd writes to the diagnostic stream
run_cmd_eprintln(verbose, o) ==
    IF verbose /\ o.ran
    THEN (IF ~trim_is_empty(o.stdout) THEN <<"[heyps] stdout:\n" \o o.stdout>> ELSE <<>>)
         \o (IF ~trim_is_empty(o.stderr) THEN <<"[heyps] stderr:\n" \o o.stderr>> ELSE <<>>)
    ELSE <<>>

\* run_cmd's return value after cmd.output() returned o
run_cmd(o) ==
    IF ~o.ran THEN Err(IoErrorText)
    ELSE IF success(o) THEN Ok("()")
    ELSE Err("Command failed with status "
             \o to_string(IF o.code.tag = "Some" THEN o.code.val ELSE -1))

\* Display for App
fmt(a) ==
    IF a.target.kind = "Latest" THEN a.name \o " [latest]"
    ELSE IF a.target.kind = "Beta" THEN a.name \o " [beta]"
    ELSE a.name \o " [" \o to_string(a.target.year) \o "]"

---------------------------------------------------------------------------
(* The environment: what the command line, the filesystem and the host's   *)
(* commands may be.                                                        *)

AppArgs == {"ps", "ai", "ae", "id"}
TargetArgs == {"latest", "beta", "2022", "20ab", "stable"}
ScriptArgs == {"/s/a.jsx", "/s/A.JSX", "/s/a.js", "/s/a.psjs", "/s/q\"b\\c.jsx",
               "/s/a.txt", "/s/readme", "/s/.js"}
FsFacts == {[exists |-> TRUE, is_file |-> TRUE], [exists |-> TRUE, is_file |-> FALSE],
            [exists |-> FALSE, is_file |-> FALSE]}

\* paths the metadata index may hold for a bundle id; the last is no .app bundle
Pool == {"/A/PS 2022.app", "/A/PS 2023.app", "/A/PS (Beta).app",
         "/U/PS (Beta).app", "/A (Beta)/PS 2020.app", "/A/PS 2024.appex"}

\* the installations of the hosts main is run on
HostInstalls == {{}, {"/A/PS 2024.appex"},
                 {"/A/PS 2022.app", "/A/PS 2023.app", "/A/PS (Beta).app"},
                 {"/U/PS (Beta).app"}}

\* the installations App::new is run on, on its own
ResolveInstalls == {S \in SUBSET Pool : Cardinality(S) <= MaxInstalled}

\* the orders in which the index may return the set S
RECURSIVE Orderings(_)
Orderings(S) ==
    IF S = {} THEN {<<>>}
    ELSE UNION {{<<x>> \o q : q \in Orderings(S \ {x})} : x \in S}

ExitCodes == {Some(0), Some(1), Some(2), None}
Stdouts == {"", "done\n"}
Stderrs == {"", "boom\n"}

\* the selectors App::new is called with, on its own
ResolveTargets == {Latest, Beta, Year(2022), Year(2023), Year(2025)}

---------------------------------------------------------------------------
(* main, statement by statement. *)

Idle ==
    /\ script_type = "" /\ app_abbr = "" /\ target = None /\ candidates = None
    /\ app = None /\ spawned = <<>> /\ exit = None /\ diag = <<>> /\ result = None

NoStr == str_in = "" /\ str_out = None

NoArgv == [app |-> "", target |-> "", execute |-> "", verbose |-> FALSE]

Init ==
    /\ pc = "get_matches"
    /\ argv \in [app : AppArgs, target : TargetArgs, execute : ScriptArgs, verbose : BOOLEAN]
    /\ fs \in FsFacts
    /\ installed \in HostInstalls
    /\ Idle /\ NoStr

Return(r) == pc' = "done" /\ result' = r

\* lines 337-383: clap checks --app against its possible values and --target
\* with parse_target, and exits with status 2 on the first bad value it meets
get_matches ==
    /\ pc = "get_matches"
    /\ LET t == parse_target(argv.target)
           app_ok == argv.app \in {"ps", "ai", "ae"}
       IN \/ /\ ~app_ok
             /\ Return([tag |-> "Exit", code |-> 2,
                        msg |-> "error: invalid value '" \o argv.app \o "' for '--app <APP>'"])
             /\ UNCHANGED target
          \/ /\ t.tag = "Err"
             /\ Return([tag |-> "Exit", code |-> 2,
                        msg |-> "error: invalid value '" \o argv.target
                                \o "' for '--target <TARGET>': " \o t.msg])
             /\ UNCHANGED target
          \/ /\ app_ok /\ t.tag = "Ok"
             /\ target' = t.val
             /\ pc' = "check_file"
             /\ UNCHANGED result
    /\ UNCHANGED <<argv, fs, installed, script_type, app_abbr, candidates, app,
                   spawned, exit, diag, str_in, str_out>>

\* lines 385-391
check_file ==
    /\ pc = "check_file"
    /\ IF ~fs.exists THEN Return(Err("The script file does not exist"))
       ELSE IF ~fs.is_file THEN Return(Err("The script should be a file"))
       ELSE pc' = "from_path" /\ UNCHANGED result
    /\ UNCHANGED <<argv, fs, installed, script_type, app_abbr, target, candidates, app,
                   spawned, exit, diag, str_in, str_out>>

\* line 393
main_from_path ==
    /\ pc = "from_path"
    /\ LET r == from_path(argv.execute)
       IN IF r.tag = "Err" THEN Return(r) /\ UNCHANGED script_type
          ELSE script_type' = r.val /\ pc' = "parse_app" /\ UNCHANGED result
    /\ UNCHANGED <<argv, fs, installed, app_abbr, target, candidates, app,
                   spawned, exit, diag, str_in, str_out>>

\* lines 394-403
parse_app ==
    /\ pc = "parse_app"
    /\ LET r == from_str(argv.app)
       IN IF r.tag = "Err" THEN Return(Err("Invalid app: " \o r.msg)) /\ UNCHANGED app_abbr
          ELSE app_abbr' = r.val /\ pc' = "App_new" /\ UNCHANGED result
    /\ UNCHANGED <<argv, fs, installed, script_type, target, candidates, app,
                   spawned, exit, diag, str_in, str_out>>

\* line 405 into mdfind_apps, line 147: Command::new("mdfind").arg(query).output()
mdfind_spawn ==
    /\ pc = "App_new"
    /\ spawned' = Append(spawned,
            Command("mdfind", <<"kMDItemCFBundleIdentifier == \"" \o bundle_id(app_abbr) \o "\"">>))
    /\ pc' = "mdfind_wait"
    /\ UNCHANGED <<argv, fs, installed, script_type, app_abbr, target, candidates, app,
                   exit, diag, result, str_in, str_out>>

\* what mdfind may have done on this host: the index returns the installed
\* paths in any order
MdfindOutcomes ==
    {MdfindIoError, MdfindOutput(FALSE, <<>>, "index unavailable\n")}
    \cup {MdfindOutput(TRUE, q, "") : q \in Orderings(installed)}

\* lines 148-156 and 197-218, then lines 406-412 of main (Script::new and the
\* verbose lines)
App_new_return ==
    /\ pc = "mdfind_wait"
    /\ \E o \in MdfindOutcomes :
          LET found == mdfind_apps(o)
              r == App_new(app_abbr, target, found)
          IN /\ candidates' = found
             /\ IF r.tag = "Err"
                THEN Return(r) /\ UNCHANGED <<app, diag>>
                ELSE /\ app' = r.val
                     /\ pc' = "execute"
                     /\ diag' = IF argv.verbose
                                THEN diag \o <<"[heyps] Using app: " \o fmt(r.val),
                                               "[heyps] App path: " \o r.val.path,
                                               "[heyps] Script: " \o argv.execute>>
                                ELSE diag
                     /\ UNCHANGED result
    /\ UNCHANGED <<argv, fs, installed, script_type, app_abbr, target, spawned, exit,
                   str_in, str_out>>

\* line 414 into Script::execute, up to cmd.output() of run_cmd (line 254)
Script_execute ==
    /\ pc = "execute"
    /\ LET r == execute(app, argv.execute, script_type)
       IN IF r.tag = "Err" THEN Return(r) /\ UNCHANGED spawned
          ELSE spawned' = Append(spawned, r.cmd) /\ pc' = "run_cmd" /\ UNCHANGED result
    /\ UNCHANGED <<argv, fs, installed, script_type, app_abbr, target, candidates, app,
                   exit, diag, str_in, str_out>>

CmdOutcomes ==
    {CmdIoError} \cup {CmdOutput(c, out, err) : c \in ExitCodes, out \in Stdouts, err \in Stderrs}

\* a failed command dispatched once more
Script_run_cmd_retry ==
    /\ pc = "run_cmd"
    /\ \E o \in CmdOutcomes :
          /\ exit' = o
          /\ diag' = diag \o run_cmd_eprintln(argv.verbose, o)
          /\ IF run_cmd(o).tag = "Err" THEN pc' = "execute" /\ UNCHANGED result
             ELSE Return(run_cmd(o))
    /\ UNCHANGED <<argv, fs, installed, script_type, app_abbr, target, candidates, app,
                   spawned, str_in, str_out>>

\* lines 254-273, and main's return (lines 414-415)
Script_run_cmd ==
    /\ pc = "run_cmd"
    /\ \E o \in CmdOutcomes :
          /\ exit' = o
          /\ diag' = diag \o run_cmd_eprintln(argv.verbose, o)
          /\ Return(run_cmd(o))
    /\ UNCHANGED <<argv, fs, installed, script_type, app_abbr, target, candidates, app,
                   spawned, str_in, str_out>>

Next ==
    \/ get_matches
    \/ check_file
    \/ main_from_path
    \/ parse_app
    \/ mdfind_spawn
    \/ App_new_return
    \/ Script_execute
    \/ Script_run_cmd

Spec == Init /\ [][Next]_vars

---------------------------------------------------------------------------
(* App::new on its own: every installation of at most MaxInstalled bundles, *)
(* every selector of ResolveTargets.                                        *)

InitResolve ==
    /\ pc = "App_new"
    /\ app_abbr \in {"Ps", "Ai", "Ae"}
    /\ target \in ResolveTargets
    /\ installed \in ResolveInstalls
    /\ argv = NoArgv /\ fs = [exists |-> TRUE, is_file |-> TRUE]
    /\ script_type = "" /\ candidates = None /\ app = None /\ spawned = <<>>
    /\ exit = None /\ diag = <<>> /\ result = None
    /\ NoStr

NextResolve ==
    \/ mdfind_spawn
    \/ App_new_return

SpecResolve == InitResolve /\ [][NextResolve]_vars

---------------------------------------------------------------------------
(* parse_target on its own: every string of at most MaxTargetLen characters *)
(* over TargetChars, and some longer ones.                                  *)

TargetChars == {"2", "0", "9", "x", "+", "-"}
TargetInputs ==
    Strings(TargetChars, MaxTargetLen)
    \cup {"latest", "beta", "Latest", "BETA", "betas", "late", "20245", "2024 ", "20XX"}

InitParse ==
    /\ pc = "parse_target"
    /\ str_in \in TargetInputs
    /\ str_out = None
    /\ argv = NoArgv /\ fs = [exists |-> TRUE, is_file |-> TRUE] /\ installed = {}
    /\ Idle

parse_target_call ==
    /\ pc = "parse_target"
    /\ str_out' = parse_target(str_in)
    /\ pc' = "parsed"
    /\ UNCHANGED <<argv, fs, installed, script_type, app_abbr, target, candidates, app,
                   spawned, exit, diag, result, str_in>>

SpecParse == InitParse /\ [][parse_target_call]_vars

---------------------------------------------------------------------------
(* escape_applescript_string on its own: every path of at most MaxPathLen   *)
(* characters over PathChars.                                               *)

PathChars == {"a", "\\", "\""}

InitEscape ==
    /\ pc = "escape"
    /\ str_in \in Strings(PathChars, MaxPathLen)
    /\ str_out = None
    /\ argv = NoArgv /\ fs = [exists |-> TRUE, is_file |-> TRUE] /\ installed = {}
    /\ Idle

escape_call ==
    /\ pc = "escape"
    /\ str_out' = Some(escape_applescript_string(str_in))
    /\ pc' = "escaped"
    /\ UNCHANGED <<argv, fs, installed, script_type, app_abbr, target, candidates, app,
                   spawned, exit, diag, result, str_in>>

SpecEscape == InitEscape /\ [][escape_call]_vars

---------------------------------------------------------------------------
(* The claims. *)

Range(q) == {q[i] : i \in 1..Len(q)}

\* the text of p after its last '/'
BaseName(p) ==
    IF \E i \in 1..Len(p) : CharAt(p, i) = "/"
    THEN LET k == CHOOSE i \in 1..Len(p) :
                     CharAt(p, i) = "/" /\ \A j \in (i + 1)..Len(p) : CharAt(p, j) # "/"
         IN SubSeq(p, k + 1, Len(p))
    ELSE p

HasMarker(p) == contains(BaseName(p), "(Beta)")

\* p is a member of S that no member of S follows in the order of paths
LastInOrder(p, S) == p \in S /\ \A q \in S : cmp_path(q, p) <= 0

\* App::new was reached with a non-empty list of candidate .app paths
HasCandidates == candidates.tag = "Ok" /\ candidates.val # <<>>

\* App::new produced an App holding the path p
ResolvedTo(p) == app # None /\ result = None /\ app.path = p
ResolutionFailed == app = None /\ pc = "done" /\ result.tag = "Err"

\* C1: for the selector latest and a non-empty list of candidates, the App
\* holds the candidate last in path order among those whose file name lacks
\* "(Beta)", and the overall last candidate when every name has the marker.
C1_LatestPrefersNonBeta ==
    (HasCandidates /\ target = Latest) =>
        LET S == Range(candidates.val)
            stable == {p \in S : ~HasMarker(p)}
        IN \E p \in S :
              /\ ResolvedTo(p)
              /\ IF stable # {} THEN LastInOrder(p, stable) ELSE LastInOrder(p, S)

\* latest chose a non-beta candidate although a beta one sorts after it
C1_Witness ==
    /\ HasCandidates /\ target = Latest /\ app # None
    /\ ~HasMarker(app.path)
    /\ \E p \in Range(candidates.val) : HasMarker(p) /\ cmp_path(app.path, p) < 0

\* C2: for the selector beta and a non-empty list of candidates, resolution
\* returns the last marker-bearing candidate when there is one, and otherwise
\* fails, producing no App, with an error that says beta was not found.
C2_BetaOrBetaNotFound ==
    (HasCandidates /\ target = Beta) =>
        LET S == Range(candidates.val)
            betas == {p \in S : HasMarker(p)}
        IN IF betas # {}
           THEN \E p \in betas : ResolvedTo(p) /\ LastInOrder(p, betas)
           ELSE ResolutionFailed /\ contains(to_lowercase(result.msg), "beta")

\* C3: for the selector Year(Y) and a non-empty list of candidates, resolution
\* returns the last candidate whose file name contains the decimal text of Y,
\* and fails with an error naming Y when no name contains it.
C3_YearOrErrorNamingYear ==
    (HasCandidates /\ target.kind = "Year") =>
        LET S == Range(candidates.val)
            y == to_string(target.year)
            hits == {p \in S : contains(BaseName(p), y)}
        IN IF hits # {}
           THEN \E p \in hits : ResolvedTo(p) /\ LastInOrder(p, hits)
           ELSE ResolutionFailed /\ contains(result.msg, y)

\* what App::new would have returned had the index listed the bundles in order q
OutcomeFor(q) == App_new(app_abbr, target, mdfind_apps(MdfindOutput(TRUE, q, "")))

\* C4: whatever order the discovery query returned the installed paths in,
\* the outcome of resolution (the App, or the error) is the one every other
\* order of the same paths gives.
C4_ResolverDeterminism ==
    candidates.tag = "Ok" =>
        \A q \in Orderings(installed) :
            OutcomeFor(q) = (IF app # None THEN Ok(app) ELSE result)

\* the query returned several candidates out of path order, and one was chosen
C4_Witness ==
    /\ candidates.tag = "Ok" /\ Len(candidates.val) >= 2
    /\ candidates.val # sort(candidates.val)
    /\ app # None

DispatchCalls == SelectSeq(spawned, LAMBDA c : c.prog \in {"open", "osascript"})
DiscoveryCalls == SelectSeq(spawned, LAMBDA c : c.prog = "mdfind")

\* Script::execute has returned or is waiting in run_cmd
Executed == app # None /\ pc \in {"run_cmd", "done"}

\* C5: once execute has acted on a resolved application: a .psjs script for
\* an application other than Photoshop, and a .js script for After Effects,
\* give an error (the latter naming .jsx) with no open or osascript command
\* run; every other pair runs exactly one of those commands.
C5_CompatibilityBeforeDispatch ==
    Executed =>
        IF script_type = "Psjs" /\ app.abbr # "Ps"
        THEN result.tag = "Err" /\ DispatchCalls = <<>>
        ELSE IF script_type = "Js" /\ app.abbr = "Ae"
        THEN result.tag = "Err" /\ DispatchCalls = <<>> /\ contains(result.msg, ".jsx")
        ELSE Len(DispatchCalls) = 1

\* a .psjs script was refused for Illustrator after a successful resolution
C5_Witness ==
    /\ Executed /\ script_type = "Psjs" /\ app.abbr = "Ai"
    /\ result.tag = "Err" /\ Len(spawned) = 1

\* the string s read left to right, each backslash taking the next character
\* with it: the characters so escaped and the bare ones, in order
RECURSIVE Unescape(_)
Unescape(s) ==
    IF s = "" THEN ""
    ELSE IF Head(s) = "\\" /\ Len(s) >= 2 THEN CharAt(s, 2) \o Unescape(SubSeq(s, 3, Len(s)))
    ELSE Head(s) \o Unescape(Tail(s))

\* read left to right, s has no bare double quote and no backslash but those
\* that escape a backslash or a double quote
RECURSIVE WellEscaped(_)
WellEscaped(s) ==
    IF s = "" THEN TRUE
    ELSE IF Head(s) = "\\"
    THEN Len(s) >= 2 /\ CharAt(s, 2) \in {"\\", "\""} /\ WellEscaped(SubSeq(s, 3, Len(s)))
    ELSE Head(s) # "\"" /\ WellEscaped(Tail(s))

Specials(s) == Cardinality({i \in 1..Len(s) : CharAt(s, i) \in {"\\", "\""}})

\* C6: escape_applescript_string puts one escaping backslash before every
\* double quote and backslash of the path, leaves no bare double quote, and
\* unescaping its result gives back the path.
C6_EscapeRoundTrip ==
    pc = "escaped" =>
        /\ WellEscaped(str_out.val)
        /\ Len(str_out.val) = Len(str_in) + Specials(str_in)
        /\ Unescape(str_out.val) = str_in

\* a path with a backslash right before a double quote was escaped
C6_Witness == pc = "escaped" /\ contains(str_in, "\\\"") /\ str_out.val # str_in

\* C7: when the dispatched command has exited: a non-zero status makes main
\* fail with an error that carries the exit code (-1 when there is none) and
\* the text the command wrote to standard error; status zero makes it succeed.
C7_FailureCarriesCodeAndStderr ==
    (pc = "done" /\ exit # None /\ exit.ran) =>
        IF exit.code = Some(0) THEN result.tag = "Ok"
        ELSE /\ result.tag = "Err"
             /\ contains(result.msg,
                    to_string(IF exit.code.tag = "Some" THEN exit.code.val ELSE -1))
             /\ contains(result.msg, exit.stderr)

Digits == {"0", "1", "2", "3", "4", "5", "6", "7", "8", "9"}

\* the accepted forms of a target: latest, beta, 20 and two decimal digits
AcceptedForm(s) ==
    \/ s = "latest"
    \/ s = "beta"
    \/ /\ Len(s) = 4 /\ SubSeq(s, 1, 2) = "20"
       /\ CharAt(s, 3) \in Digits /\ CharAt(s, 4) \in Digits

\* C8: parse_target accepts exactly the accepted forms, and its error for
\* every other string lists the three accepted forms.
C8_RejectsListingForms ==
    pc = "parsed" =>
        /\ str_out.tag = "Ok" <=> AcceptedForm(str_in)
        /\ str_out.tag = "Err" => contains(str_out.msg, "latest, beta, or 20XX")

\* the path ends in one of the three suffixes, whatever the case of its letters
RecognizedSuffix(p) ==
    \E e \in {".psjs", ".jsx", ".js"} :
        /\ Len(p) >= Len(e)
        /\ to_lowercase(SubSeq(p, Len(p) - Len(e) + 1, Len(p))) = e

InputError ==
    \/ ~fs.exists
    \/ ~fs.is_file
    \/ ~RecognizedSuffix(argv.execute)
    \/ argv.app \notin {"ps", "ai", "ae"}
    \/ ~AcceptedForm(argv.target)

\* C9: a run whose script path does not exist, is no regular file or has no
\* recognized suffix, or whose app or target argument is invalid, never spawns
\* mdfind, open or osascript, and ends in failure.
C9_InputErrorsBeforeExternalCalls ==
    InputError =>
        /\ spawned = <<>>
        /\ pc \in {"get_matches", "check_file", "from_path", "done"}
        /\ pc = "done" => result.tag \in {"Err", "Exit"}

\* a run with valid arguments and an existing file of unknown suffix has failed
C9_Witness ==
    /\ pc = "done" /\ result.tag = "Err" /\ spawned = <<>>
    /\ fs.is_file /\ target # None /\ ~RecognizedSuffix(argv.execute)

\* the candidate p is one the selector t asks for; latest asks for any
SelectorMatches(t, p) ==
    IF t.kind = "Beta" THEN HasMarker(p)
    ELSE IF t.kind = "Year" THEN contains(BaseName(p), to_string(t.year))
    ELSE TRUE

\* C10: at most one mdfind and at most one dispatch command are spawned, the
\* dispatch command after mdfind and only once mdfind has succeeded and
\* resolution has produced an App from a candidate the selector matches; a
\* run that ended without an App spawned no dispatch command.
C10_OneDiscoveryThenOneDispatch ==
    /\ Len(DiscoveryCalls) <= 1
    /\ Len(DispatchCalls) <= 1
    /\ spawned = DiscoveryCalls \o DispatchCalls
    /\ DispatchCalls # <<>> =>
          /\ DiscoveryCalls # <<>>
          /\ candidates.tag = "Ok"
          /\ app # None
          /\ app.path \in Range(candidates.val)
          /\ SelectorMatches(target, app.path)
    /\ (pc = "done" /\ app = None) => DispatchCalls = <<>>

\* the dispatch command failed after a successful discovery, and the run ended
C10_Witness ==
    /\ pc = "done" /\ result.tag = "Err" /\ Len(spawned) = 2
    /\ exit # None /\ exit.ran /\ exit.code = Some(1)

====
